---- MODULE Spec2Model ----
(***************************************************************************)
(* Model of dm-data-outlier-injector (src/main.py): the function           *)
(* inject_outliers and the command-line driver main.                       *)
(*                                                                         *)
(* A DataFrame is a record: its ordered column names, one dtype per        *)
(* column, the row index labels and the rows (functions from column name   *)
(* to cell).  A cell is a record [k, hi, lo]:                              *)
(*    k = "num"  the number hi * 2^53 + lo  (hi in {0, 1}, lo small)       *)
(*    k = "nan"  a missing value (NaN)                                     *)
(*    k = "str"  a text value, lo its identity                             *)
(* The two-limb form keeps the integers of an int64 column that a float64  *)
(* cannot hold: pandas turns an int64 column into float64 as soon as it    *)
(* is concatenated with float or missing data.                             *)
(***************************************************************************)
EXTENDS Integers, Sequences, FiniteSets, TLC

\* Bounds of the model.
MaxRows == 2
MaxOutliers == 2

Range(s) == {s[i] : i \in DOMAIN s}

Num(hi, lo) == [k |-> "num", hi |-> hi, lo |-> lo]
NaN == [k |-> "nan", hi |-> 0, lo |-> 0]
Str(i) == [k |-> "str", hi |-> 0, lo |-> i]

\* The value `None` and a Python object that is no DataFrame.
None == [kind |-> "None"]
NotADataFrame == [kind |-> "list"]
Unset == [kind |-> "unset"]

\* numpy's int64 -> float64 conversion (round to nearest, ties to even).
\* Below 2^53 every integer is exact; in [2^53, 2^54) floats are 2 apart.
AsFloat64(v) ==
  IF v.k = "num" /\ v.hi = 1 /\ v.lo % 2 = 1
    THEN LET q == v.lo \div 2
         IN  Num(1, IF q % 2 = 0 THEN 2 * q ELSE 2 * (q + 1))
    ELSE v

----------------------------------------------------------------------------
\* The inputs the model draws from.

ColumnLists == {<<"x">>, <<"x", "id", "s">>}

DtypeChoices(c) ==
  IF c = "x" THEN {"int64", "float64"}
  ELSE IF c = "id" THEN {"int64"}
  ELSE {"object"}

CellsOf(dtype) ==
  IF dtype = "int64" THEN {Num(0, 1), Num(1, 1)}
  ELSE IF dtype = "float64" THEN {Num(0, 1), NaN}
  ELSE {Str(1)}

AllCells == {Num(0, 1), Num(1, 1), NaN, Str(1)}

RowsFor(cols, dt) ==
  {r \in [Range(cols) -> AllCells] : \A c \in Range(cols) : r[c] \in CellsOf(dt[c])}

RangeIndex(n) == [i \in 1..n |-> i - 1]

\* Labels left behind by a filter or a sort: neither sequential nor from 0.
StaleIndex(n) == [i \in 1..n |-> 2 * (n - i) + 3]

DataFrame(cols, dt, idx, rows) ==
  [kind |-> "DataFrame", columns |-> cols, dtypes |-> dt, index |-> idx, rows |-> rows]

FramesWith(cols, dt) ==
  UNION {{DataFrame(cols, dt, RangeIndex(n), rows) : rows \in [1..n -> RowsFor(cols, dt)]}
         : n \in 0..MaxRows}

Frames ==
  UNION {UNION {FramesWith(cols, dt)
                : dt \in {d \in [Range(cols) -> {"int64", "float64", "object"}]
                           : \A c \in Range(cols) : d[c] \in DtypeChoices(c)}}
         : cols \in ColumnLists}

ColumnNames == {"x", "s", "z"}
OutlierCounts == (-1)..MaxOutliers
\* std_multiplier in halves: -2.5, 0, 0.5, 3.0
StdMultipliers == {-5, 0, 1, 6}

Arguments ==
  [column_name : ColumnNames, num_outliers : OutlierCounts, std_multiplier : StdMultipliers]

\* Values np.random.normal can return when its scale is positive.
SampleValues == {Num(0, 3), Num(0, -4)}

----------------------------------------------------------------------------
\* inject_outliers

InColumns(column_name, df) == column_name \in Range(df.columns)

\* pd.api.types.is_numeric_dtype
is_numeric_dtype(dtype) == dtype \in {"int64", "float64"}

\* The validation of inject_outliers: the check that raises first, or "ok".
Validate_params_first(df, column_name, num_outliers, std_multiplier) ==
  IF df.kind # "DataFrame" THEN "NotDataFrame"
  ELSE IF num_outliers < 0 THEN "InvalidCount"
  ELSE IF std_multiplier <= 0 THEN "InvalidMultiplier"
  ELSE IF ~ InColumns(column_name, df) THEN "ColumnNotFound"
  ELSE IF ~ is_numeric_dtype(df.dtypes[column_name]) THEN "NonNumericColumn"
  ELSE "ok"

Validate_zero_multiplier(df, column_name, num_outliers, std_multiplier) ==
  IF df.kind # "DataFrame" THEN "NotDataFrame"
  ELSE IF ~ InColumns(column_name, df) THEN "ColumnNotFound"
  ELSE IF ~ is_numeric_dtype(df.dtypes[column_name]) THEN "NonNumericColumn"
  ELSE IF num_outliers < 0 THEN "InvalidCount"
  ELSE IF std_multiplier < 0 THEN "InvalidMultiplier"
  ELSE "ok"

Validate(df, column_name, num_outliers, std_multiplier) ==
  IF df.kind # "DataFrame" THEN "NotDataFrame"
  ELSE IF ~ InColumns(column_name, df) THEN "ColumnNotFound"
  ELSE IF ~ is_numeric_dtype(df.dtypes[column_name]) THEN "NonNumericColumn"
  ELSE IF num_outliers < 0 THEN "InvalidCount"
  ELSE IF std_multiplier <= 0 THEN "InvalidMultiplier"
  ELSE "ok"

\* The message of the exception each check raises.
ErrorMessage_generic(check) == "invalid input"

ErrorMessage(check) ==
  IF check = "NotDataFrame" THEN "Input must be a Pandas DataFrame."
  ELSE IF check = "ColumnNotFound" THEN "Column not found in DataFrame."
  ELSE IF check = "NonNumericColumn" THEN "Column must be numeric."
  ELSE IF check = "InvalidCount" THEN "Number of outliers must be non-negative."
  ELSE "Standard deviation multiplier must be positive."

LogRecord(level, message) == [level |-> level, message |-> message]

\* The non-missing values of a column, as float64.
Observed(df, column_name) ==
  LET present == SelectSeq(df.rows, LAMBDA r : r[column_name].k = "num")
  IN  [i \in DOMAIN present |-> AsFloat64(present[i][column_name])]

\* Series.mean(): NaN without values, the common value when all values are
\* equal.  When they differ the mean is some finite number, which normal
\* reads only to see that it is no NaN: the first value stands for it.
mean(df, column_name) ==
  LET obs == Observed(df, column_name)
  IN  IF Len(obs) = 0 THEN NaN ELSE obs[1]

\* Series.std() (ddof = 1), by class: "nan" with fewer than two values,
\* "zero" when they are all equal, "pos" otherwise.
std(df, column_name) ==
  LET obs == Observed(df, column_name)
  IN  IF Len(obs) < 2 THEN "nan"
      ELSE IF \A i \in DOMAIN obs : obs[i] = obs[1] THEN "zero"
      ELSE "pos"

\* std * std_multiplier, by class ("neg" is a negative scale).
Scaled(std_class, std_multiplier) ==
  IF std_class = "nan" THEN "nan"
  ELSE IF std_class = "zero" \/ std_multiplier = 0 THEN "zero"
  ELSE IF std_multiplier > 0 THEN "pos"
  ELSE "neg"

\* np.random.normal(loc, scale, size): the arrays it can return.  A NaN
\* location or scale gives NaN, a zero scale gives the location itself.
normal(loc, scale, size) ==
  LET support == IF loc.k = "nan" \/ scale = "nan" THEN {NaN}
                 ELSE IF scale = "zero" THEN {loc}
                 ELSE SampleValues
  IN  [1..size -> support]

\* The row that the one-column frame of outliers gives once it is aligned to
\* the columns of df: the columns it lacks are filled with NaN.
NewRow_zero_fill(columns, column_name, value) ==
  [c \in Range(columns) |-> IF c = column_name THEN value ELSE Num(0, 0)]

NewRow(columns, column_name, value) ==
  [c \in Range(columns) |-> IF c = column_name THEN value ELSE NaN]

\* The dtype of a column of the concatenation: an int64 column meets float64
\* outliers (the target) or missing values (every other column) and becomes
\* float64; float64 and object stay.
ResultDtype(dtype) == IF dtype = "int64" THEN "float64" ELSE dtype

ConvertRow(row, dtypes) ==
  [c \in DOMAIN row |-> IF dtypes[c] = "int64" THEN AsFloat64(row[c]) ELSE row[c]]

\* pd.concat([df, pd.DataFrame({column_name: outliers})], ignore_index=True)
concat_inner(df, column_name, outliers) ==
  LET old == [i \in DOMAIN df.rows |->
                [c \in {column_name} |-> ConvertRow(df.rows[i], df.dtypes)[c]]]
      new == [i \in DOMAIN outliers |-> NewRow(<<column_name>>, column_name, outliers[i])]
  IN  DataFrame(<<column_name>>,
                [c \in {column_name} |-> ResultDtype(df.dtypes[c])],
                RangeIndex(Len(old) + Len(new)),
                old \o new)

concat(df, column_name, outliers) ==
  LET old == [i \in DOMAIN df.rows |-> ConvertRow(df.rows[i], df.dtypes)]
      new == [i \in DOMAIN outliers |-> NewRow(df.columns, column_name, outliers[i])]
  IN  DataFrame(df.columns,
                [c \in Range(df.columns) |-> ResultDtype(df.dtypes[c])],
                RangeIndex(Len(old) + Len(new)),
                old \o new)

\* inject_outliers: the set of its outcomes, one per draw of the random
\* source.  An outcome is the value returned and the log records emitted.
inject_outliers(df, column_name, num_outliers, std_multiplier) ==
  LET check == Validate(df, column_name, num_outliers, std_multiplier)
  IN  IF check # "ok"
        THEN {[ret |-> None,
               log |-> <<LogRecord("ERROR", ErrorMessage(check))>>]}
        ELSE {[ret |-> concat(df, column_name, outliers),
               log |-> <<LogRecord("INFO", "Successfully injected outliers.")>>]
              : outliers \in normal(mean(df, column_name),
                                      Scaled(std(df, column_name), std_multiplier),
                                      num_outliers)}

----------------------------------------------------------------------------
\* main: one run of the command-line program, and one direct call of
\* inject_outliers by a library user.

VARIABLES
  entry,             \* "main": a run of the program; "inject": a direct call
  input_file,        \* what args.input_file holds
  disk,              \* how writing args.output_file goes
  args,              \* column_name, num_outliers, std_multiplier
  pc,                \* the position in main, or around the direct call
  df,                \* the table given to inject_outliers
  df_with_outliers,  \* what inject_outliers returned
  log,               \* the log records emitted so far
  exit_code,         \* the exit status of the process, Running before it ends
  to_csv_calls,      \* how often the table writer was invoked
  output_file        \* "untouched", "written" or "truncated"

vars == <<entry, input_file, disk, args, pc, df, df_with_outliers, log,
          exit_code, to_csv_calls, output_file>>

Running == -1

\* Input files: absent, without data, malformed, undecodable, or a CSV file
\* with the table it parses to.
InputFiles ==
  {[kind |-> k, table |-> None] : k \in {"missing", "empty", "malformed", "undecodable"}}
  \cup {[kind |-> "csv", table |-> t] : t \in Frames}

Disks == {"ok", "no_directory", "full"}

\* What a library user can pass as df: any object, any index.
DirectInputs ==
  {NotADataFrame} \cup Frames
  \cup {[t EXCEPT !.index = StaleIndex(Len(t.rows))] : t \in Frames}

\* pd.read_csv on a CSV file: a default RangeIndex, dtypes inferred per column
\* (a column without any value is of dtype object).
read_csv(file) ==
  LET t == file.table
  IN  IF Len(t.rows) = 0
        THEN [t EXCEPT !.dtypes = [c \in Range(t.columns) |-> "object"]]
        ELSE t

Init ==
  /\ entry \in {"main", "inject"}
  /\ args \in Arguments
  /\ IF entry = "main"
       THEN /\ input_file \in InputFiles
            /\ disk \in Disks
            /\ df = Unset
            /\ pc = "start"
       ELSE /\ input_file = [kind |-> "missing", table |-> None]
            /\ disk = "ok"
            /\ df \in DirectInputs
            /\ pc = "call"
  /\ df_with_outliers = Unset
  /\ log = <<>>
  /\ exit_code = Running
  /\ to_csv_calls = 0
  /\ output_file = "untouched"

\* df = pd.read_csv(args.input_file), with the handlers of the exceptions it
\* raises: each logs one error and exits with status 1.
ReadCsv ==
  /\ pc = "start"
  /\ IF input_file.kind = "csv"
       THEN /\ df' = read_csv(input_file)
            /\ pc' = "loaded"
            /\ UNCHANGED <<log, exit_code>>
       ELSE /\ log' = Append(log, LogRecord("ERROR",
                 IF input_file.kind = "missing" THEN "Input file not found."
                 ELSE IF input_file.kind = "empty" THEN "Input file is empty."
                 ELSE IF input_file.kind = "malformed" THEN "Error parsing input file."
                 ELSE "An unexpected error occurred."))
            /\ exit_code' = 1
            /\ pc' = "exited"
            /\ UNCHANGED df
  /\ UNCHANGED <<entry, input_file, disk, args, df_with_outliers, to_csv_calls,
                 output_file>>

\* df_with_outliers = inject_outliers(df, ...)
CallInject ==
  /\ pc = "loaded"
  /\ \E r \in inject_outliers(df, args.column_name, args.num_outliers,
                              args.std_multiplier) :
       /\ df_with_outliers' = r.ret
       /\ log' = log \o r.log
  /\ pc' = "injected"
  /\ UNCHANGED <<entry, input_file, disk, args, df, exit_code, to_csv_calls,
                 output_file>>

\* df_with_outliers.to_csv(args.output_file, index=False) and the success
\* message; a failing write raises FileNotFoundError (no directory to write
\* in) or another OSError, each handled by main's except clauses.
ToCsv_before_check ==
  /\ pc = "injected"
  /\ to_csv_calls' = to_csv_calls + 1
  /\ output_file' = IF disk = "ok" THEN "written" ELSE "truncated"
  /\ log' = Append(log, IF df_with_outliers.kind = "DataFrame" /\ disk = "ok"
                          THEN LogRecord("INFO", "Outlier injection complete.")
                          ELSE LogRecord("ERROR", "An unexpected error occurred."))
  /\ exit_code' = IF df_with_outliers.kind = "DataFrame" /\ disk = "ok" THEN 0 ELSE 1
  /\ pc' = "exited"
  /\ UNCHANGED <<entry, input_file, disk, args, df, df_with_outliers>>

ToCsv ==
  /\ pc = "injected"
  /\ df_with_outliers # None
  /\ to_csv_calls' = to_csv_calls + 1
  /\ IF disk = "ok"
       THEN /\ output_file' = "written"
            /\ log' = Append(log, LogRecord("INFO", "Outlier injection complete."))
            /\ exit_code' = 0
       ELSE IF disk = "no_directory"
       THEN /\ output_file' = output_file
            /\ log' = Append(log, LogRecord("ERROR", "Input file not found."))
            /\ exit_code' = 1
       ELSE /\ output_file' = "truncated"
            /\ log' = Append(log, LogRecord("ERROR", "An unexpected error occurred."))
            /\ exit_code' = 1
  /\ pc' = "exited"
  /\ UNCHANGED <<entry, input_file, disk, args, df, df_with_outliers>>

\* The else branch: inject_outliers returned None.
InjectionFailed_no_exit ==
  /\ pc = "injected"
  /\ df_with_outliers = None
  /\ log' = Append(log, LogRecord("ERROR", "Outlier injection failed."))
  /\ exit_code' = 0
  /\ pc' = "exited"
  /\ UNCHANGED <<entry, input_file, disk, args, df, df_with_outliers, to_csv_calls,
                 output_file>>

InjectionFailed_silent ==
  /\ pc = "injected"
  /\ df_with_outliers = None
  /\ exit_code' = 1
  /\ pc' = "exited"
  /\ UNCHANGED <<entry, input_file, disk, args, df, df_with_outliers, log,
                 to_csv_calls, output_file>>

InjectionFailed ==
  /\ pc = "injected"
  /\ df_with_outliers = None
  /\ log' = Append(log, LogRecord("ERROR", "Outlier injection failed."))
  /\ exit_code' = 1
  /\ pc' = "exited"
  /\ UNCHANGED <<entry, input_file, disk, args, df, df_with_outliers, to_csv_calls,
                 output_file>>

\* A direct call of inject_outliers.
DirectCall ==
  /\ pc = "call"
  /\ \E r \in inject_outliers(df, args.column_name, args.num_outliers,
                              args.std_multiplier) :
       /\ df_with_outliers' = r.ret
       /\ log' = log \o r.log
  /\ pc' = "returned"
  /\ UNCHANGED <<entry, input_file, disk, args, df, exit_code, to_csv_calls,
                 output_file>>

Next == ReadCsv \/ CallInject \/ ToCsv \/ InjectionFailed \/ DirectCall

Spec == Init /\ [][Next]_vars

\* main is straight-line code: whenever a step is possible it is taken.
FairSpec == Spec /\ WF_vars(Next)

----------------------------------------------------------------------------
\* Vocabulary of the properties.

\* inject_outliers has been called and has returned.
Returned == df_with_outliers.kind # "unset"

Target == args.column_name

ColumnExists == df.kind = "DataFrame" /\ Target \in Range(df.columns)

NumericTarget == ColumnExists /\ df.dtypes[Target] \in {"int64", "float64"}

\* Every validation check passes.
ValidCall == NumericTarget /\ args.num_outliers >= 0 /\ args.std_multiplier > 0

\* The error inject_outliers reported: it is the first to log when called.
Reported ==
  IF Returned /\ Len(log) >= 1 /\ log[1].level = "ERROR" THEN log[1].message ELSE "none"

OriginalRowCount == Len(df.rows)

ErrorLines == Len(SelectSeq(log, LAMBDA r : r.level = "ERROR"))

Exited == pc = "exited"

----------------------------------------------------------------------------
\* C1: for every table and parameter set that passes all validation checks,
\* inject returns a table whose row count is the original row count plus
\* num_outliers and whose column set is the original column set.
C1_RowCountAndColumns ==
  (Returned /\ ValidCall) =>
    /\ df_with_outliers.kind = "DataFrame"
    /\ Len(df_with_outliers.rows) = OriginalRowCount + args.num_outliers
    /\ Range(df_with_outliers.columns) = Range(df.columns)
    /\ \A i \in DOMAIN df_with_outliers.rows :
         DOMAIN df_with_outliers.rows[i] = Range(df.columns)

C1_Witness ==
  /\ Returned /\ ValidCall
  /\ args.num_outliers >= 2
  /\ OriginalRowCount >= 1
  /\ Cardinality(Range(df.columns)) = 3

\* C2: the checks run in the order table type, column exists, column numeric,
\* num_outliers >= 0, std_multiplier > 0, and the first failing one alone
\* determines the reported error: a missing column is ColumnNotFound whatever
\* the count and the multiplier, a negative count with a non-positive
\* multiplier is InvalidCount.
C2_FirstFailingCheckReported ==
  Returned =>
    /\ df.kind # "DataFrame" => Reported = "Input must be a Pandas DataFrame."
    /\ (df.kind = "DataFrame" /\ ~ ColumnExists)
         => Reported = "Column not found in DataFrame."
    /\ (ColumnExists /\ ~ NumericTarget) => Reported = "Column must be numeric."
    /\ (NumericTarget /\ args.num_outliers < 0)
         => Reported = "Number of outliers must be non-negative."
    /\ (NumericTarget /\ args.num_outliers >= 0 /\ args.std_multiplier <= 0)
         => Reported = "Standard deviation multiplier must be positive."

C2_Witness ==
  /\ Returned
  /\ df.kind = "DataFrame" /\ ~ ColumnExists
  /\ args.num_outliers < 0 /\ args.std_multiplier <= 0
  /\ Reported = "Column not found in DataFrame."

\* C3 as stated: on a validation failure inject hands its caller an error
\* value that tells the kind of failure, not a bare None.
C3_Original_ErrorValueByKind ==
  (Returned /\ ~ ValidCall) => df_with_outliers # None

\* C3 as the code has it: on a validation failure inject returns None, the
\* same for every kind; the kind shows only in the message of the one
\* error-level record it logs, and the messages of the kinds differ.
C3_NoneAndMessageByKind ==
  (Returned /\ ~ ValidCall /\ pc \in {"injected", "returned"}) =>
    /\ df_with_outliers = None
    /\ Len(log) = 1
    /\ log[1].level = "ERROR"
    /\ (log[1].message = "Input must be a Pandas DataFrame.") <=> (df.kind # "DataFrame")
    /\ (log[1].message = "Column not found in DataFrame.")
         <=> (df.kind = "DataFrame" /\ ~ ColumnExists)
    /\ (log[1].message = "Column must be numeric.") <=> (ColumnExists /\ ~ NumericTarget)
    /\ (log[1].message \in {"Number of outliers must be non-negative.",
                            "Standard deviation multiplier must be positive."})
         <=> NumericTarget

C3_Witness ==
  /\ Returned /\ ColumnExists /\ ~ NumericTarget
  /\ pc = "returned"
  /\ df_with_outliers = None
  /\ log[1].message = "Column must be numeric."

\* C4: with an existing numeric column, inject fails with InvalidCount exactly
\* when num_outliers < 0 (0 is accepted) and, the count being valid, with
\* InvalidMultiplier exactly when std_multiplier <= 0; on failure no table is
\* returned.
C4_CountAndMultiplierChecks ==
  (Returned /\ NumericTarget) =>
    /\ (Reported = "Number of outliers must be non-negative.") <=> (args.num_outliers < 0)
    /\ args.num_outliers >= 0 =>
         ((Reported = "Standard deviation multiplier must be positive.")
            <=> (args.std_multiplier <= 0))
    /\ (args.num_outliers >= 0 /\ args.std_multiplier > 0)
         => (Reported = "none" /\ df_with_outliers.kind = "DataFrame")
    /\ Reported # "none" => df_with_outliers = None

C4_Witness ==
  /\ Returned /\ NumericTarget
  /\ args.num_outliers = 0 /\ args.std_multiplier = 0
  /\ Reported = "Standard deviation multiplier must be positive."
  /\ df_with_outliers = None

\* C5: for num_outliers = 0 with otherwise valid parameters inject returns a
\* table row-for-row identical to the input: same rows, same order, same
\* values, no row added.
C5_ZeroInjectionIsIdentity ==
  (Returned /\ ValidCall /\ args.num_outliers = 0) =>
    /\ df_with_outliers.kind = "DataFrame"
    /\ df_with_outliers.rows = df.rows

\* C6: every injected row (each of the last num_outliers rows) has a value
\* only in the target column; every other column of it is missing.
C6_InjectedRowsOnlyTarget ==
  (Returned /\ ValidCall) =>
    \A i \in (OriginalRowCount + 1)..Len(df_with_outliers.rows) :
      /\ df_with_outliers.rows[i][Target].k \in {"num", "nan"}
      /\ \A c \in Range(df_with_outliers.columns) \ {Target} :
           df_with_outliers.rows[i][c] = NaN

C6_Witness ==
  /\ Returned /\ ValidCall
  /\ args.num_outliers >= 1
  /\ Cardinality(Range(df.columns)) = 3
  /\ df_with_outliers.rows[Len(df_with_outliers.rows)][Target].k = "num"

\* C7: the new rows come after all existing rows: the first
\* original_row_count rows of the result are the original rows, in their
\* order, with unchanged values, and the rows carry the positional indices
\* 0 .. original_row_count + num_outliers - 1, whatever the input's index.
C7_AppendedAfterUnchangedRows ==
  (Returned /\ ValidCall) =>
    /\ SubSeq(df_with_outliers.rows, 1, OriginalRowCount) = df.rows
    /\ df_with_outliers.index
         = [i \in 1..(OriginalRowCount + args.num_outliers) |-> i - 1]

\* What the code does keep of C5 and C7: the order, the count, the fresh
\* index, and every value up to the conversion of int64 columns to float64.
AppendedUpToFloat64 ==
  (Returned /\ ValidCall) =>
    /\ Len(df_with_outliers.rows) = OriginalRowCount + args.num_outliers
    /\ \A i \in 1..OriginalRowCount : \A c \in Range(df.columns) :
         df_with_outliers.rows[i][c]
           = IF df.dtypes[c] = "int64" THEN AsFloat64(df.rows[i][c]) ELSE df.rows[i][c]
    /\ df_with_outliers.index
         = [i \in 1..(OriginalRowCount + args.num_outliers) |-> i - 1]

\* C8: every run of the CLI terminates, with exit code 0 if and only if the
\* load, the injection and the write all succeeded, and with exit code 1
\* otherwise.
C8_ExitCode ==
  /\ [](Exited =>
          /\ exit_code \in {0, 1}
          /\ (exit_code = 0) <=> /\ input_file.kind = "csv"
                                 /\ df_with_outliers.kind = "DataFrame"
                                 /\ disk = "ok" /\ output_file = "written")
  /\ [](~ Exited => exit_code = Running)
  /\ ((pc = "start") ~> Exited)

C8_Witness ==
  /\ Exited /\ exit_code = 1
  /\ df_with_outliers.kind = "DataFrame"
  /\ disk = "full"

\* C9: the output file is written only after the full augmented table has
\* been built: when loading fails or the injector reports a failure the
\* table writer is never invoked and the output path is left as it was.
C9_NoWriteOnFailure ==
  /\ (entry = "main" /\ (input_file.kind # "csv" \/ df_with_outliers = None))
       => (to_csv_calls = 0 /\ output_file = "untouched")
  /\ to_csv_calls > 0 =>
       /\ df_with_outliers.kind = "DataFrame"
       /\ Len(df_with_outliers.rows) = OriginalRowCount + args.num_outliers

C9_Witness ==
  /\ Exited /\ df_with_outliers = None
  /\ to_csv_calls = 0 /\ output_file = "untouched"

\* C10 as stated: every failing run emits exactly one error-level log line
\* before it exits with code 1.
C10_Original_OneErrorLine ==
  (Exited /\ exit_code = 1) => ErrorLines = 1

\* C10 as the code has it: a failing run emits one error-level line when the
\* load or the write fails, and two when the injector fails (the injector's
\* own line, then main's "Outlier injection failed").
C10_ErrorLinesPerFailure ==
  (Exited /\ exit_code = 1) =>
    /\ ErrorLines = (IF df_with_outliers = None THEN 2 ELSE 1)
    /\ log[Len(log)].level = "ERROR"

C10_Witness ==
  /\ Exited /\ exit_code = 1
  /\ df_with_outliers = None
  /\ ErrorLines = 2
====
